---- MODULE Spec2Model ----
(***************************************************************************)
(* A model of tsm, a terminal picker for tmux sessions and windows.        *)
(*                                                                         *)
(*   - ui.ScrollList (internal/ui/scrolllist.go): the generic scrollable,  *)
(*     filterable list.  Specification SpecSL.                             *)
(*   - model.Model (internal/model/model.go): the bubbletea state machine  *)
(*     over sessions, items, cursor, filter and mode, together with the    *)
(*     tmux provider it calls and the messages in flight.  Specification   *)
(*     Spec.                                                               *)
(*                                                                         *)
(* Strings are sequences of one-character strings, so that lower-casing    *)
(* and substring search are computed and not assumed.                      *)
(***************************************************************************)
EXTENDS Integers, Sequences, FiniteSets, Bags, TLC

VARIABLES fn, sl, m, tmux, disk, inflight, calls, quit

vars == <<fn, sl, m, tmux, disk, inflight, calls, quit>>

(***************************************************************************)
(* Bounds of the model.                                                    *)
(***************************************************************************)
\* Width in bits of the modelled Go int (two's complement, wraps around).
IntBits == 6
\* Longest item slice handed to ScrollList.SetItems.
MaxItems == 3
\* Longest filter text typed.
MaxFilterLen == 2
\* Most loadSessions commands and results outstanding at a time.
MaxLoads == 2
\* Most clearMessageAfter timers running at a time.
MaxTimers == 1
\* Most fetch and clone commands and results outstanding at a time.
MaxCloneTasks == 1
\* Longest text typed into the session-name input.
MaxInputLen == 2
\* Most repository-list fetches outstanding at a time when the clone view is
\* re-entered while an earlier fetch still runs.
MaxFetches == 2

\* The longest argument of a function applied on its own.
MaxArgLen == 2

(***************************************************************************)
(* Go int arithmetic.                                                      *)
(***************************************************************************)
Pow2(n) == 2 ^ n

MaxInt == Pow2(IntBits - 1) - 1

MinInt == 0 - Pow2(IntBits - 1)

\* The value a Go int holds after an operation whose exact result is x.
Wrap(x) == ((x + Pow2(IntBits - 1)) % Pow2(IntBits)) - Pow2(IntBits - 1)

(***************************************************************************)
(* Strings.                                                                *)
(***************************************************************************)
\* The runes the keyboard can type in the model.
Runes == {"B", "1"}

ToLowerRune(c) ==
    CASE c = "A" -> "a"
      [] c = "B" -> "b"
      [] OTHER -> c

\* The digit a rune stands for, 0 for a rune that is no digit 1-9.
DigitOf(c) ==
    CASE c = "1" -> 1
      [] OTHER -> 0

\* strings.ToLower
ToLower(s) == [i \in DOMAIN s |-> ToLowerRune(s[i])]

\* strings.Contains
Contains(s, sub) ==
    \E i \in 0..(Len(s) - Len(sub)) : SubSeq(s, i + 1, i + Len(sub)) = sub

\* A match of every text, whatever the pattern.
fuzzyMatchAll(text, pattern) == TRUE

\* fuzzyMatch(text, pattern): the caller passes the pattern already lower-cased.
fuzzyMatch(text, pattern) == Contains(ToLower(text), pattern)

\* strings.TrimSpace, over texts whose only white space is the blank.
RECURSIVE TrimLeft(_)
TrimLeft(s) == IF s # <<>> /\ Head(s) = " " THEN TrimLeft(Tail(s)) ELSE s

RECURSIVE TrimRight(_)
TrimRight(s) ==
    IF s # <<>> /\ s[Len(s)] = " " THEN TrimRight(SubSeq(s, 1, Len(s) - 1)) ELSE s

TrimSpace(s) == TrimRight(TrimLeft(s))

\* A replacer that leaves the dot alone.
sanitizeSessionNameKeepDot(name) ==
    [i \in DOMAIN name |-> IF name[i] \in {"/", ":", " "} THEN "-" ELSE name[i]]

\* sanitizeSessionName: "/", ".", ":" and " " become "-".
sanitizeSessionName(name) ==
    [i \in DOMAIN name |-> IF name[i] \in {"/", ".", ":", " "} THEN "-" ELSE name[i]]

\* strings.Split(s, sep) for a one-rune separator.
RECURSIVE Split(_, _)
Split(s, sep) ==
    IF \A i \in DOMAIN s : s[i] # sep THEN <<s>>
    ELSE LET i == CHOOSE j \in DOMAIN s : s[j] = sep /\ \A k \in 1..(j - 1) : s[k] # sep
         IN  <<SubSeq(s, 1, i - 1)>> \o Split(SubSeq(s, i + 1, Len(s)), sep)

\* strings.Join(parts, sep)
RECURSIVE Join(_, _)
Join(parts, sep) ==
    IF parts = <<>> THEN <<>>
    ELSE IF Len(parts) = 1 THEN parts[1]
    ELSE parts[1] \o <<sep>> \o Join(Tail(parts), sep)

\* config.ProjectDepth: how many trailing path components name a project.
ProjectDepth == 2

\* extractDisplayPath: the last ProjectDepth components of fullPath.
extractDisplayPath(fullPath) ==
    LET parts == Split(fullPath, "/")
        depth == IF ProjectDepth > Len(parts) THEN Len(parts) ELSE ProjectDepth
    IN  Join(SubSeq(parts, Len(parts) - depth + 1, Len(parts)), "/")

extractSessionName(fullPath) == sanitizeSessionName(extractDisplayPath(fullPath))

\* Texts of at most n runes.
RECURSIVE TextsUpTo(_)
TextsUpTo(n) ==
    IF n = 0 THEN {<<>>}
    ELSE LET shorter == TextsUpTo(n - 1)
         IN  shorter \cup {Append(t, c) : t \in shorter, c \in Runes}

Filters == TextsUpTo(MaxFilterLen)

\* Session, directory and repository names.
Names == {<<"a">>, <<"a", "b">>, <<"a", "B", "b">>}

(***************************************************************************)
(* fuzzyMatch and sanitizeSessionName applied on their own: fn holds the   *)
(* arguments and the result of the last application.                       *)
(***************************************************************************)
\* The runes of the arguments: letters of both cases, the four characters
\* sanitizeSessionName replaces, and the replacement.
ArgRunes == {"a", "B", "b", "/", ".", ":", " ", "-"}

RECURSIVE ArgsUpTo(_)
ArgsUpTo(n) ==
    IF n = 0 THEN {<<>>}
    ELSE LET shorter == ArgsUpTo(n - 1)
         IN  shorter \cup {Append(t, c) : t \in shorter, c \in ArgRunes}

\* No function applied yet.
NoCall == [op |-> "", text |-> <<>>, pattern |-> <<>>, found |-> FALSE, out |-> <<>>]

CallFuzzyMatch ==
    /\ fn.op = ""
    /\ fn' = [fn EXCEPT !.op = "fuzzyMatch",
                        !.found = fuzzyMatch(fn.text, fn.pattern)]
    /\ UNCHANGED <<sl, m, tmux, disk, inflight, calls, quit>>

CallSanitizeSessionName ==
    /\ fn.op = ""
    /\ fn' = [fn EXCEPT !.op = "sanitizeSessionName",
                        !.out = sanitizeSessionName(fn.text)]
    /\ UNCHANGED <<sl, m, tmux, disk, inflight, calls, quit>>

(***************************************************************************)
(* ui.ScrollList[T], with T = string and filterFn = fuzzyMatch.            *)
(***************************************************************************)
RECURSIVE SeqsUpTo(_, _)
SeqsUpTo(S, n) ==
    IF n = 0 THEN {<<>>}
    ELSE LET shorter == SeqsUpTo(S, n - 1)
         IN  shorter \cup {Append(t, x) : t \in shorter, x \in S}

ItemSlices == SeqsUpTo(Names, MaxItems)

\* Arguments of SetCursor, MoveCursor and SetHeight: small, negative, oversized.
IntArgs == {MinInt, -2, -1, 0, 1, 2, 3, MaxInt}

DefaultHeight == 10

NewScrollList ==
    [items |-> <<>>, filtered |-> <<>>, cursor |-> 0, scrollOffset |-> 0,
     filter |-> <<>>, height |-> DefaultHeight]

\* clampCursor without its upper clamp.
clampCursorNoUpper(s) ==
    IF s.cursor < 0 THEN [s EXCEPT !.cursor = 0] ELSE s

clampCursor(s) ==
    LET c1 == IF s.cursor >= Len(s.filtered)
              THEN Wrap(Len(s.filtered) - 1) ELSE s.cursor
        c2 == IF c1 < 0 THEN 0 ELSE c1
    IN  [s EXCEPT !.cursor = c2]

\* updateScrollOffset without its scroll-down branch.
updateScrollOffsetNoDown(s) ==
    LET o1 == IF s.cursor < s.scrollOffset THEN s.cursor ELSE s.scrollOffset
        o3 == IF o1 < 0 THEN 0 ELSE o1
    IN  [s EXCEPT !.scrollOffset = o3]

updateScrollOffset(s) ==
    LET o1 == IF s.cursor < s.scrollOffset THEN s.cursor ELSE s.scrollOffset
        o2 == IF s.cursor >= Wrap(o1 + s.height)
              THEN Wrap(Wrap(s.cursor - s.height) + 1) ELSE o1
        o3 == IF o2 < 0 THEN 0 ELSE o2
    IN  [s EXCEPT !.scrollOffset = o3]

\* The loop of applyFilter: append every item the predicate accepts.
RECURSIVE filterLoop(_, _, _)
filterLoop(items, filterLower, acc) ==
    IF items = <<>> THEN acc
    ELSE filterLoop(Tail(items), filterLower,
                    IF fuzzyMatch(Head(items), filterLower)
                    THEN Append(acc, Head(items)) ELSE acc)

\* applyFilter handing the filter to the predicate as typed.
applyFilterNoLower(s) ==
    LET f == IF s.filter = <<>> THEN s.items
             ELSE filterLoop(s.items, s.filter, <<>>)
    IN  updateScrollOffset(clampCursor([s EXCEPT !.filtered = f]))

applyFilter(s) ==
    LET f == IF s.filter = <<>> THEN s.items
             ELSE filterLoop(s.items, ToLower(s.filter), <<>>)
    IN  updateScrollOffset(clampCursor([s EXCEPT !.filtered = f]))

SetItems(s, items) == applyFilter([s EXCEPT !.items = items])

SetHeight(s, height) ==
    updateScrollOffset(IF height > 0 THEN [s EXCEPT !.height = height] ELSE s)

SetFilter(s, filter) == applyFilter([s EXCEPT !.filter = filter])

SetCursor(s, pos) == updateScrollOffset(clampCursor([s EXCEPT !.cursor = pos]))

MoveCursor(s, delta) ==
    updateScrollOffset(clampCursor([s EXCEPT !.cursor = Wrap(s.cursor + delta)]))

Reset(s) ==
    applyFilter([s EXCEPT !.filter = <<>>, !.cursor = 0, !.scrollOffset = 0])

Clear(s) ==
    [s EXCEPT !.items = <<>>, !.filtered = <<>>, !.cursor = 0,
              !.scrollOffset = 0, !.filter = <<>>]

engineVars == <<fn, m, tmux, disk, inflight, calls, quit>>

CallSetItems == \E items \in ItemSlices : sl' = SetItems(sl, items) /\ UNCHANGED engineVars

CallSetHeight == \E h \in IntArgs : sl' = SetHeight(sl, h) /\ UNCHANGED engineVars

CallSetFilter == \E f \in Filters : sl' = SetFilter(sl, f) /\ UNCHANGED engineVars

CallSetCursor == \E p \in IntArgs : sl' = SetCursor(sl, p) /\ UNCHANGED engineVars

CallMoveCursor == \E d \in IntArgs : sl' = MoveCursor(sl, d) /\ UNCHANGED engineVars

CallReset == sl' = Reset(sl) /\ UNCHANGED engineVars

CallClear == sl' = Clear(sl) /\ UNCHANGED engineVars

(***************************************************************************)
(* The tmux provider (internal/tmux/tmux.go).  Its state is the list of    *)
(* sessions other than the current one, most recently active first, each   *)
(* with the indices of its windows.                                        *)
(***************************************************************************)
TmuxInit ==
    << [Name |-> <<"a">>, Windows |-> <<1, 2>>],
       [Name |-> <<"a", "B", "b">>, Windows |-> <<1>>] >>

SessionExists(t, name) == \E i \in DOMAIN t : t[i].Name = name

TmuxIndex(t, name) == CHOOSE i \in DOMAIN t : t[i].Name = name

RemoveAt(seq, i) == SubSeq(seq, 1, i - 1) \o SubSeq(seq, i + 1, Len(seq))

\* tmux list-sessions: names only; Windows and Expanded are zero values.
ListSessions(t) ==
    [i \in DOMAIN t |-> [Name |-> t[i].Name, Windows |-> <<>>, Expanded |-> FALSE]]

\* tmux list-windows -t name: <<ok, windows>>.
ListWindows(t, name) ==
    IF SessionExists(t, name) THEN <<TRUE, t[TmuxIndex(t, name)].Windows>>
    ELSE <<FALSE, <<>>>>

\* tmux kill-session -t name: <<ok, provider afterwards>>.
KillSession(t, name) ==
    IF SessionExists(t, name) THEN <<TRUE, RemoveAt(t, TmuxIndex(t, name))>>
    ELSE <<FALSE, t>>

\* tmux kill-window -t name:index; killing the last window ends the session.
KillWindow(t, name, index) ==
    IF SessionExists(t, name)
       /\ \E j \in DOMAIN t[TmuxIndex(t, name)].Windows :
              t[TmuxIndex(t, name)].Windows[j] = index
    THEN LET i == TmuxIndex(t, name)
             rest == SelectSeq(t[i].Windows, LAMBDA w : w # index)
         IN  IF rest = <<>> THEN <<TRUE, RemoveAt(t, i)>>
             ELSE <<TRUE, [t EXCEPT ![i].Windows = rest]>>
    ELSE <<FALSE, t>>

\* tmux switch-client -t target, target = <<name>> or <<name, index>>.
SwitchClient(t, target) ==
    /\ SessionExists(t, target[1])
    /\ Len(target) = 2 =>
           \E j \in DOMAIN t[TmuxIndex(t, target[1])].Windows :
               t[TmuxIndex(t, target[1])].Windows[j] = target[2]

\* tmux has-session -t name
HasSession(t, name) == SessionExists(t, name)

\* tmux new-session -d -s name: <<ok, provider afterwards>>; a duplicate name is
\* refused, and the new session is the most recently active one.
CreateSession(t, name) ==
    IF SessionExists(t, name) THEN <<FALSE, t>>
    ELSE <<TRUE, <<[Name |-> name, Windows |-> <<1>>]>> \o t>>

(***************************************************************************)
(* The file system: the full paths of the project directories a scan       *)
(* finds, in scan order.                                                   *)
(***************************************************************************)
DiskInit ==
    << <<"/", "B", "/", "o", "/", "a">>, <<"/", "B", "/", "o", "/", "B">> >>

\* The lists of not yet cloned repositories that a fetch can return.
RepoLists == { <<>>, << <<"o", "/", "a">>, <<"o", "/", "B">> >> }

(***************************************************************************)
(* model.Model                                                             *)
(***************************************************************************)
ModeNormal == "Normal"

ModeConfirmKill == "ConfirmKill"

ModeCreate == "Create"

ModePickDirectory == "PickDirectory"

ModeConfirmRemoveFolder == "ConfirmRemoveFolder"

ModeCloneRepo == "CloneRepo"

AppBorderOverheadY == 2

\* Terminal heights a tea.WindowSizeMsg reports.
TermHeights == {11}

\* Digits 1-9 of the jump keys that the model presses.
Digits == {1, 2}

\* New(currentSession, cfg)
New ==
    [sessions |-> <<>>, cursor |-> 0, items |-> <<>>, mode |-> ModeNormal,
     message |-> <<>>, messageIsError |-> FALSE, killTarget |-> <<>>,
     filter |-> <<>>, scrollOffset |-> 0, height |-> 0,
     input |-> <<>>, removeTarget |-> <<>>,
     projectDirs |-> <<>>, projectFiltered |-> <<>>, projectFilter |-> <<>>,
     projectCursor |-> 0, projectScrollOffset |-> 0,
     cloneRepos |-> <<>>, cloneReposAll |-> <<>>, cloneFilter |-> <<>>,
     cloneCursor |-> 0, cloneScrollOffset |-> 0, cloneLoading |-> FALSE,
     cloneError |-> <<>>, cloneCloning |-> FALSE, cloneCloningRepo |-> <<>>,
     cloneSuccess |-> FALSE, cloneSuccessSession |-> <<>>,
     animationFrame |-> 0]

contentHeight(mm) == IF mm.height > 0 THEN mm.height - AppBorderOverheadY ELSE 0

sessionMaxVisibleItems(mm) ==
    IF contentHeight(mm) > 0 /\ contentHeight(mm) - 7 > 0
    THEN contentHeight(mm) - 7
    ELSE 10

modelUpdateScrollOffset(mm) ==
    LET maxVisible == sessionMaxVisibleItems(mm)
        o1 == IF mm.cursor < mm.scrollOffset THEN mm.cursor ELSE mm.scrollOffset
        o2 == IF mm.cursor >= o1 + maxVisible THEN mm.cursor - maxVisible + 1 ELSE o1
        o3 == IF o2 < 0 THEN 0 ELSE o2
    IN  [mm EXCEPT !.scrollOffset = o3]

\* Item values; SessionIndex and WindowIndex are 0-based slice indices.
SessionItem(i) == [IsSession |-> TRUE, SessionIndex |-> i, WindowIndex |-> 0]

WindowItem(i, j) == [IsSession |-> FALSE, SessionIndex |-> i, WindowIndex |-> j]

RECURSIVE windowLoop(_, _, _, _)
windowLoop(i, n, j, acc) ==
    IF j >= n THEN acc ELSE windowLoop(i, n, j + 1, Append(acc, WindowItem(i, j)))

\* The loop of rebuildItems over m.sessions, from 0-based index i.
RECURSIVE rebuildLoop(_, _, _, _)
rebuildLoop(sessions, filter, i, acc) ==
    IF i >= Len(sessions) THEN acc
    ELSE LET session == sessions[i + 1]
         IN  IF filter # <<>> /\ ~fuzzyMatch(session.Name, ToLower(filter))
             THEN rebuildLoop(sessions, filter, i + 1, acc)
             ELSE rebuildLoop(sessions, filter, i + 1,
                      IF session.Expanded
                      THEN windowLoop(i, Len(session.Windows), 0,
                                      Append(acc, SessionItem(i)))
                      ELSE Append(acc, SessionItem(i)))

\* rebuildItems without its cursor clamp.
rebuildItemsNoClamp(mm) ==
    modelUpdateScrollOffset(
        [mm EXCEPT !.items = rebuildLoop(mm.sessions, mm.filter, 0, <<>>)])

rebuildItems(mm) ==
    LET items == rebuildLoop(mm.sessions, mm.filter, 0, <<>>)
        c1 == IF mm.cursor >= Len(items) THEN Len(items) - 1 ELSE mm.cursor
        c2 == IF c1 < 0 THEN 0 ELSE c1
    IN  modelUpdateScrollOffset([mm EXCEPT !.items = items, !.cursor = c2])

isCursorValid(mm) == mm.cursor >= 0 /\ mm.cursor < Len(mm.items)

\* The item under the cursor (only where isCursorValid).
CurrentItem(mm) == mm.items[mm.cursor + 1]

\* getTargetName: <<name>> for a session, <<name, window.Index>> for "name:index".
getTargetName(mm, item) ==
    IF item.IsSession THEN <<mm.sessions[item.SessionIndex + 1].Name>>
    ELSE <<mm.sessions[item.SessionIndex + 1].Name,
           mm.sessions[item.SessionIndex + 1].Windows[item.WindowIndex + 1]>>

\* The message line holds the kind of text shown, and for the two kill prompts
\* the target they name: <<>> (none), <<"Kill", target>>, <<"Kill window", target>>,
\* <<"Killed">>, <<"No other sessions">> and <<"Error">> (any text set by setError).
setError(mm, text) == [mm EXCEPT !.message = text, !.messageIsError = TRUE]

(***************************************************************************)
(* Commands and messages in flight: a bag, since bubbletea runs every      *)
(* command in its own goroutine and results arrive in any order.           *)
(***************************************************************************)
LoadCmd == [type |-> "loadSessions"]

SessionsMsg(sessions) == [type |-> "sessionsMsg", sessions |-> sessions]

ErrMsg == [type |-> "errMsg"]

ClearMessageMsg == [type |-> "clearMessageMsg"]

FetchCmd == [type |-> "fetchAvailableRepos"]

CloneCmd(repo) == [type |-> "cloneRepo", repo |-> repo]

CloneReposLoadedMsg(repos) == [type |-> "cloneReposLoadedMsg", repos |-> repos]

CloneErrorMsg == [type |-> "cloneErrorMsg"]

CloneSuccessMsg(sessionName) == [type |-> "cloneSuccessMsg", sessionName |-> sessionName]

One(x) == SetToBag({x})

\* How many loadSessions commands and results are outstanding.
OutstandingLoads(b) ==
    LET S == {x \in BagToSet(b) : x.type \in {"loadSessions", "sessionsMsg", "errMsg"}}
        RECURSIVE Sum(_)
        Sum(T) == IF T = {} THEN 0
                  ELSE LET x == CHOOSE y \in T : TRUE
                       IN  CopiesIn(x, b) + Sum(T \ {x})
    IN  Sum(S)

\* How many fetch and clone commands and results are outstanding.
OutstandingClones(b) ==
    LET S == {x \in BagToSet(b) : x.type \in {"fetchAvailableRepos", "cloneRepo",
                  "cloneReposLoadedMsg", "cloneErrorMsg", "cloneSuccessMsg"}}
        RECURSIVE Sum(_)
        Sum(T) == IF T = {} THEN 0
                  ELSE LET x == CHOOSE y \in T : TRUE
                       IN  CopiesIn(x, b) + Sum(T \ {x})
    IN  Sum(S)

CanDispatchClone == OutstandingClones(inflight) < MaxCloneTasks

CanDispatchLoad == OutstandingLoads(inflight) < MaxLoads

CanDispatchClear == CopiesIn(ClearMessageMsg, inflight) < MaxTimers

Call(op, arg) == [op |-> op, arg |-> arg]

\* A handler that changes only the model, calls nothing and dispatches nothing.
Pure(mm) ==
    /\ m' = mm
    /\ calls' = <<>>
    /\ UNCHANGED <<fn, sl, tmux, disk, inflight, quit>>

\* A handler that leaves the model mm, made the calls cs, left the provider t
\* and the disk d, and returned the commands cmds, or tea.Quit when q.
Step(mm, cs, t, d, cmds, q) ==
    /\ m' = mm
    /\ calls' = cs
    /\ tmux' = t
    /\ disk' = d
    /\ quit' = q
    /\ inflight' = IF q THEN EmptyBag ELSE inflight (+) cmds
    /\ UNCHANGED <<fn, sl>>

\* A handler that returns tea.Quit: the program ends, and the results of the
\* commands still running are never delivered.
Quit(mm, cs) ==
    /\ m' = mm
    /\ calls' = cs
    /\ quit' = TRUE
    /\ inflight' = EmptyBag
    /\ UNCHANGED <<fn, sl, tmux, disk>>

(***************************************************************************)
(* handleNormalMode                                                        *)
(***************************************************************************)
InNormal == ~quit /\ m.mode = ModeNormal

NormalQuit == InNormal /\ Quit(m, <<>>)

NormalCancel ==
    /\ InNormal
    /\ IF m.filter # <<>>
       THEN Pure(rebuildItems([m EXCEPT !.filter = <<>>]))
       ELSE Quit(m, <<>>)

NormalUp ==
    /\ InNormal
    /\ Pure(IF m.cursor > 0
            THEN modelUpdateScrollOffset([m EXCEPT !.cursor = m.cursor - 1])
            ELSE m)

NormalDown ==
    /\ InNormal
    /\ Pure(IF m.cursor < Len(m.items) - 1
            THEN modelUpdateScrollOffset([m EXCEPT !.cursor = m.cursor + 1])
            ELSE m)

\* expandCurrent without its collapse loop.
collapseAllKeep(sessions) == sessions

collapseAll(sessions) == [i \in DOMAIN sessions |-> [sessions[i] EXCEPT !.Expanded = FALSE]]

\* expandCurrent: <<model afterwards, collaborator calls made>>.
expandCurrent(mm, t) ==
    IF ~isCursorValid(mm) THEN <<mm, <<>>>>
    ELSE IF ~CurrentItem(mm).IsSession THEN <<mm, <<>>>>
    ELSE LET k == CurrentItem(mm).SessionIndex + 1
             collapsed == collapseAll(mm.sessions)
             name == collapsed[k].Name
             lw == ListWindows(t, name)
         IN  IF Len(collapsed[k].Windows) = 0
             THEN IF ~lw[1]
                  THEN <<setError([mm EXCEPT !.sessions = collapsed],
                                  <<"Error">>),
                         <<Call("ListWindows", name)>>>>
                  ELSE <<rebuildItems([mm EXCEPT !.sessions =
                             [collapsed EXCEPT ![k].Windows = lw[2],
                                               ![k].Expanded = TRUE]]),
                         <<Call("ListWindows", name)>>>>
             ELSE <<rebuildItems([mm EXCEPT !.sessions =
                        [collapsed EXCEPT ![k].Expanded = TRUE]]), <<>>>>

NormalExpand ==
    /\ InNormal
    /\ m' = expandCurrent(m, tmux)[1]
    /\ calls' = expandCurrent(m, tmux)[2]
    /\ UNCHANGED <<fn, sl, tmux, disk, inflight, quit>>

\* The first index i of items with a Session item of session sessionIdx, or the
\* cursor when there is none (the loop of collapseCurrent).
RECURSIVE findSessionItem(_, _, _, _)
findSessionItem(items, sessionIdx, i, cursor) ==
    IF i >= Len(items) THEN cursor
    ELSE IF items[i + 1].IsSession /\ items[i + 1].SessionIndex = sessionIdx THEN i
    ELSE findSessionItem(items, sessionIdx, i + 1, cursor)

collapseCurrent(mm) ==
    IF ~isCursorValid(mm) THEN mm
    ELSE LET item == CurrentItem(mm)
             sessionIdx == item.SessionIndex
             c == IF item.IsSession THEN mm.cursor
                  ELSE findSessionItem(mm.items, sessionIdx, 0, mm.cursor)
         IN  rebuildItems([mm EXCEPT !.cursor = c,
                                     !.sessions[sessionIdx + 1].Expanded = FALSE])

NormalCollapse == InNormal /\ Pure(collapseCurrent(m))

\* A handler that quits whether or not the switch succeeded.
SwitchThenQuit(mm, target) == Quit(mm, <<Call("SwitchClient", target)>>)

\* A handler that switches the client to target: quits on success.
SwitchOrError(mm, target) ==
    IF SwitchClient(tmux, target)
    THEN Quit(mm, <<Call("SwitchClient", target)>>)
    ELSE /\ m' = setError(mm, <<"Error">>)
         /\ calls' = <<Call("SwitchClient", target)>>
         /\ UNCHANGED <<fn, sl, tmux, disk, inflight, quit>>

selectCurrent ==
    IF ~isCursorValid(m) THEN Pure(m)
    ELSE SwitchOrError(m, getTargetName(m, CurrentItem(m)))

NormalSelect == InNormal /\ selectCurrent

confirmKill(mm) ==
    IF ~isCursorValid(mm) THEN mm
    ELSE LET item == CurrentItem(mm)
             target == getTargetName(mm, item)
         IN  [mm EXCEPT !.killTarget = target,
                        !.message = IF item.IsSession THEN <<"Kill", target>>
                                    ELSE <<"Kill window", target>>,
                        !.mode = ModeConfirmKill]

NormalKill == InNormal /\ Pure(confirmKill(m))

\* textinput.Blink only drives the caret of the input.
NormalCreate ==
    /\ InNormal
    /\ Pure([m EXCEPT !.mode = ModeCreate, !.filter = <<>>, !.input = <<>>])

\* scanProjectDirectories: the directories on disk, in scan order.
scanProjectDirectories(d) == d

\* tea.WindowSize() asks for a tea.WindowSizeMsg, which may arrive at any time.
NormalPickDirectory ==
    /\ InNormal
    /\ Pure([m EXCEPT !.mode = ModePickDirectory, !.filter = <<>>,
                      !.projectFilter = <<>>, !.projectCursor = 0,
                      !.projectScrollOffset = 0,
                      !.projectDirs = scanProjectDirectories(disk),
                      !.projectFiltered = scanProjectDirectories(disk)])

\* The assignments of the CloneRepo key once the repos config is loaded.
enterCloneRepo(mm) ==
    [mm EXCEPT !.mode = ModeCloneRepo, !.filter = <<>>, !.cloneFilter = <<>>,
               !.cloneCursor = 0, !.cloneScrollOffset = 0, !.cloneRepos = <<>>,
               !.cloneReposAll = <<>>, !.cloneError = <<>>, !.cloneLoading = TRUE,
               !.cloneCloning = FALSE]

\* repos.LoadConfig may fail; then only the error is set.
\* The key is modelled while fewer than n fetch and clone commands are
\* outstanding.
NormalCloneRepoUpTo(n) ==
    /\ InNormal
    /\ \E ok \in BOOLEAN :
          IF ok
          THEN /\ OutstandingClones(inflight) < n
               /\ Step(enterCloneRepo(m), <<>>, tmux, disk, One(FetchCmd), FALSE)
          ELSE Pure(setError(m, <<"Error">>))

NormalCloneRepo == NormalCloneRepoUpTo(MaxCloneTasks)

\* git.GetSessionPath succeeds for a session tmux knows.
openLazygit ==
    IF ~isCursorValid(m) THEN Pure(m)
    ELSE LET name == m.sessions[CurrentItem(m).SessionIndex + 1].Name
         IN  IF SessionExists(tmux, name)
             THEN Quit(m, <<Call("GetSessionPath", name)>>)
             ELSE /\ m' = setError(m, <<"Error">>)
                  /\ calls' = <<Call("GetSessionPath", name)>>
                  /\ UNCHANGED <<fn, sl, tmux, disk, inflight, quit>>

NormalLazygit == InNormal /\ openLazygit

\* The window of session (1-based k) whose Index is num, 0 when there is none.
windowWithIndex(mm, k, num) ==
    LET W == mm.sessions[k].Windows
    IN  IF \E j \in DOMAIN W : W[j] = num THEN num ELSE 0

handleJump(num) ==
    LET valid == isCursorValid(m)
        k == IF valid THEN CurrentItem(m).SessionIndex + 1 ELSE 0
        inExpanded == valid /\ m.sessions[k].Expanded
                            /\ windowWithIndex(m, k, num) = num
        sessionIdx == num - 1
    IN  IF inExpanded THEN SwitchOrError(m, <<m.sessions[k].Name, num>>)
        ELSE IF sessionIdx >= 0 /\ sessionIdx < Len(m.sessions)
        THEN SwitchOrError(m, <<m.sessions[sessionIdx + 1].Name>>)
        ELSE Pure(m)

\* A digit key that is a jump key whatever the filter.
isJumpKeyAnyFilter(filter, num) == num \in 1..9

\* Whether the key of digit num (0: no digit) is a jump key: only while the
\* filter is empty.
isJumpKey(filter, num) == filter = <<>> /\ num \in 1..9

NormalJump ==
    /\ InNormal
    /\ \E num \in Digits : isJumpKey(m.filter, num) /\ handleJump(num)

NormalBackspace ==
    /\ InNormal
    /\ Pure(IF Len(m.filter) > 0
            THEN rebuildItems([m EXCEPT !.filter = SubSeq(m.filter, 1, Len(m.filter) - 1)])
            ELSE m)

\* A typed rune that is no jump key is appended to the filter.
NormalRunes ==
    /\ InNormal
    /\ Len(m.filter) < MaxFilterLen
    /\ \E r \in Runes :
          /\ ~isJumpKey(m.filter, DigitOf(r))
          /\ Pure(rebuildItems([m EXCEPT !.filter = Append(m.filter, r)]))

(***************************************************************************)
(* handleConfirmKillMode                                                   *)
(***************************************************************************)
InConfirmKill == ~quit /\ m.mode = ModeConfirmKill

\* The target killCurrent hands to the provider: the item under the cursor.
killTargetOf(mm) == getTargetName(mm, CurrentItem(mm))

\* killCurrent returning early, in ConfirmKill, when the kill fails.
killOutcomeStay(mm, ok) ==
    IF ok
    THEN [mm EXCEPT !.message = <<"Killed">>, !.mode = ModeNormal, !.killTarget = <<>>]
    ELSE setError(mm, <<"Error">>)

\* What killCurrent does to the model once the provider has answered.
killOutcome(mm, ok) ==
    [(IF ok THEN [mm EXCEPT !.message = <<"Killed">>] ELSE setError(mm, <<"Error">>))
        EXCEPT !.mode = ModeNormal, !.killTarget = <<>>]

killCurrent ==
    IF ~isCursorValid(m) THEN Pure(m)
    ELSE LET target == killTargetOf(m)
             res == IF Len(target) = 1 THEN KillSession(tmux, target[1])
                    ELSE KillWindow(tmux, target[1], target[2])
         IN  /\ CanDispatchLoad
             /\ CanDispatchClear
             /\ m' = killOutcome(m, res[1])
             /\ tmux' = res[2]
             /\ calls' = <<Call(IF Len(target) = 1 THEN "KillSession" ELSE "KillWindow",
                                target)>>
             /\ inflight' = inflight (+) One(LoadCmd) (+) One(ClearMessageMsg)
             /\ UNCHANGED <<fn, sl, disk, quit>>

ConfirmKillKill == InConfirmKill /\ killCurrent

\* The Cancel key leaving the pending target in place.
confirmKillCancelKeepTarget(mm) == [mm EXCEPT !.mode = ModeNormal, !.message = <<>>]

confirmKillCancel(mm) ==
    [mm EXCEPT !.mode = ModeNormal, !.message = <<>>, !.killTarget = <<>>]

ConfirmKillCancel == InConfirmKill /\ Pure(confirmKillCancel(m))

(***************************************************************************)
(* handleCreateMode                                                        *)
(***************************************************************************)
\* The runes typed into the session-name input.
InputRunes == {"a", " "}

InCreate == ~quit /\ m.mode = ModeCreate

createCancel(mm) == [mm EXCEPT !.mode = ModeNormal]

CreateCancel == InCreate /\ Pure(createCancel(m))

\* A switch at the end of a handler: quits on success, and on failure sets the
\* error on mm and reloads the sessions.
SwitchOrReload(mm, cs, t, name) ==
    LET cs1 == Append(cs, Call("SwitchClient", <<name>>))
    IN  IF SwitchClient(t, <<name>>) THEN Step(mm, cs1, t, disk, EmptyBag, TRUE)
        ELSE /\ CanDispatchLoad
             /\ Step(setError(mm, <<"Error">>), cs1, t, disk, One(LoadCmd), FALSE)

\* createSession(name)
createSession(name) ==
    LET sname == sanitizeSessionName(name)
        res == CreateSession(tmux, sname)
    IN  IF ~res[1]
        THEN Step([setError(m, <<"Error">>) EXCEPT !.mode = ModeNormal],
                  <<Call("CreateSession", sname)>>, tmux, disk, EmptyBag, FALSE)
        ELSE SwitchOrReload(m, <<Call("CreateSession", sname)>>, res[2], sname)

\* The name check without the trim.
nameIsEmptyNoTrim(input) == input = <<>>

\* The name check of the Enter key: TRUE when the trimmed input is empty.
nameIsEmpty(input) == TrimSpace(input) = <<>>

CreateEnter ==
    /\ InCreate
    /\ IF nameIsEmpty(m.input) THEN Pure(setError(m, <<"Error">>))
       ELSE createSession(TrimSpace(m.input))

\* textinput.Update: a typed rune is appended to the input.
CreateRunes ==
    /\ InCreate
    /\ Len(m.input) < MaxInputLen
    /\ \E r \in InputRunes : Pure([m EXCEPT !.input = Append(m.input, r)])

\* textinput.Update: backspace deletes the last rune of the input.
CreateBackspace ==
    /\ InCreate
    /\ Pure(IF Len(m.input) > 0
            THEN [m EXCEPT !.input = SubSeq(m.input, 1, Len(m.input) - 1)]
            ELSE m)

(***************************************************************************)
(* handlePickDirectoryMode and handleConfirmRemoveFolderMode               *)
(***************************************************************************)
InPickDirectory == ~quit /\ m.mode = ModePickDirectory

projectMaxVisibleItems(mm) ==
    IF contentHeight(mm) > 0 /\ contentHeight(mm) - 5 > 0
    THEN contentHeight(mm) - 5
    ELSE 10

updateProjectScrollOffset(mm) ==
    LET maxVisible == projectMaxVisibleItems(mm)
        o1 == IF mm.projectCursor < mm.projectScrollOffset THEN mm.projectCursor
              ELSE mm.projectScrollOffset
        o2 == IF mm.projectCursor >= o1 + maxVisible
              THEN mm.projectCursor - maxVisible + 1 ELSE o1
        o3 == IF o2 < 0 THEN 0 ELSE o2
    IN  [mm EXCEPT !.projectScrollOffset = o3]

filterProjectDirs(mm) ==
    LET filtered == IF mm.projectFilter = <<>> THEN mm.projectDirs
                    ELSE SelectSeq(mm.projectDirs,
                             LAMBDA fullPath : fuzzyMatch(extractDisplayPath(fullPath),
                                                          ToLower(mm.projectFilter)))
        c1 == IF mm.projectCursor >= Len(filtered) THEN Len(filtered) - 1
              ELSE mm.projectCursor
        c2 == IF c1 < 0 THEN 0 ELSE c1
    IN  updateProjectScrollOffset(
            [mm EXCEPT !.projectFiltered = filtered, !.projectCursor = c2])

\* The Cancel key leaving the picker whatever the filter.
pickDirectoryCancelExit(mm) == [mm EXCEPT !.mode = ModeNormal]

pickDirectoryCancel(mm) ==
    IF mm.projectFilter # <<>>
    THEN [mm EXCEPT !.projectFilter = <<>>, !.projectFiltered = mm.projectDirs,
                    !.projectCursor = 0]
    ELSE [mm EXCEPT !.mode = ModeNormal]

PickDirectoryCancel == InPickDirectory /\ Pure(pickDirectoryCancel(m))

PickDirectoryUp ==
    /\ InPickDirectory
    /\ Pure(IF m.projectCursor > 0
            THEN updateProjectScrollOffset([m EXCEPT !.projectCursor = m.projectCursor - 1])
            ELSE m)

PickDirectoryDown ==
    /\ InPickDirectory
    /\ Pure(IF m.projectCursor < Len(m.projectFiltered) - 1
            THEN updateProjectScrollOffset([m EXCEPT !.projectCursor = m.projectCursor + 1])
            ELSE m)

createSessionFromDir(fullPath) ==
    LET name == extractSessionName(fullPath)
    IN  IF HasSession(tmux, name)
        THEN SwitchOrReload(m, <<>>, tmux, name)
        ELSE LET res == CreateSession(tmux, name)
             IN  IF ~res[1]
                 THEN Step([setError(m, <<"Error">>) EXCEPT !.mode = ModeNormal],
                           <<Call("CreateSession", name)>>, tmux, disk, EmptyBag, FALSE)
                 ELSE SwitchOrReload(m, <<Call("CreateSession", name)>>, res[2], name)

PickDirectorySelect ==
    /\ InPickDirectory
    /\ IF Len(m.projectFiltered) > 0 /\ m.projectCursor < Len(m.projectFiltered)
       THEN createSessionFromDir(m.projectFiltered[m.projectCursor + 1])
       ELSE Pure(m)

confirmRemoveFolder(mm) ==
    IF Len(mm.projectFiltered) = 0 \/ mm.projectCursor >= Len(mm.projectFiltered)
    THEN mm
    ELSE [mm EXCEPT !.removeTarget = mm.projectFiltered[mm.projectCursor + 1],
                    !.message = <<"Remove", mm.projectFiltered[mm.projectCursor + 1]>>,
                    !.mode = ModeConfirmRemoveFolder]

PickDirectoryKill == InPickDirectory /\ Pure(confirmRemoveFolder(m))

PickDirectoryQuit == InPickDirectory /\ Quit(m, <<>>)

PickDirectoryBackspace ==
    /\ InPickDirectory
    /\ Pure(IF Len(m.projectFilter) > 0
            THEN filterProjectDirs([m EXCEPT !.projectFilter =
                     SubSeq(m.projectFilter, 1, Len(m.projectFilter) - 1)])
            ELSE m)

\* A rune of R typed into the directory filter.
PickDirectoryRunesOf(R) ==
    /\ InPickDirectory
    /\ Len(m.projectFilter) < MaxFilterLen
    /\ \E r \in R :
          Pure(filterProjectDirs([m EXCEPT !.projectFilter = Append(m.projectFilter, r)]))

PickDirectoryRunes == PickDirectoryRunesOf(Runes)

InConfirmRemoveFolder == ~quit /\ m.mode = ModeConfirmRemoveFolder

\* removeFolder: the session of the folder is killed when there is one, and
\* os.RemoveAll may fail.
\* A failed removal that leaves the prompt open.
removeFailedStay(mm) == setError(mm, <<"Error">>)

\* What removeFolder does to the model when os.RemoveAll fails.
removeFailed(mm) ==
    [setError(mm, <<"Error">>) EXCEPT !.mode = ModePickDirectory, !.removeTarget = <<>>]

removeFolder ==
    IF m.removeTarget = <<>> THEN Pure(m)
    ELSE LET sessionName == extractSessionName(m.removeTarget)
             has == HasSession(tmux, sessionName)
             t1 == IF has THEN KillSession(tmux, sessionName)[2] ELSE tmux
             cs == (IF has THEN <<Call("KillSession", <<sessionName>>)>> ELSE <<>>)
                       \o <<Call("RemoveAll", m.removeTarget)>>
         IN  \E ok \in BOOLEAN :
                 IF ~ok
                 THEN Step(removeFailed(m), cs, t1, disk, EmptyBag, FALSE)
                 ELSE LET d1 == SelectSeq(disk, LAMBDA d : d # m.removeTarget)
                      IN  /\ CanDispatchClear
                          /\ Step(filterProjectDirs(
                                      [m EXCEPT !.message = <<"Removed">>,
                                                !.mode = ModePickDirectory,
                                                !.removeTarget = <<>>,
                                                !.projectDirs = scanProjectDirectories(d1)]),
                                  cs, t1, d1, One(ClearMessageMsg), FALSE)

ConfirmRemoveFolderKill == InConfirmRemoveFolder /\ removeFolder

\* The Cancel key leaving the pending path in place.
confirmRemoveFolderCancelKeepTarget(mm) ==
    [mm EXCEPT !.mode = ModePickDirectory, !.message = <<>>]

confirmRemoveFolderCancel(mm) ==
    [mm EXCEPT !.mode = ModePickDirectory, !.message = <<>>, !.removeTarget = <<>>]

ConfirmRemoveFolderCancel == InConfirmRemoveFolder /\ Pure(confirmRemoveFolderCancel(m))

(***************************************************************************)
(* handleCloneRepoMode                                                     *)
(***************************************************************************)
InCloneRepo == ~quit /\ m.mode = ModeCloneRepo

cloneMaxVisibleItems(mm) ==
    IF contentHeight(mm) > 0 /\ contentHeight(mm) - 5 > 0
    THEN contentHeight(mm) - 5
    ELSE 10

updateCloneScrollOffset(mm) ==
    LET maxVisible == cloneMaxVisibleItems(mm)
        o1 == IF mm.cloneCursor < mm.cloneScrollOffset THEN mm.cloneCursor
              ELSE mm.cloneScrollOffset
        o2 == IF mm.cloneCursor >= o1 + maxVisible
              THEN mm.cloneCursor - maxVisible + 1 ELSE o1
        o3 == IF o2 < 0 THEN 0 ELSE o2
    IN  [mm EXCEPT !.cloneScrollOffset = o3]

filterCloneRepos(mm) ==
    LET repos == IF mm.cloneFilter = <<>> THEN mm.cloneReposAll
                 ELSE SelectSeq(mm.cloneReposAll,
                          LAMBDA repo : fuzzyMatch(repo, ToLower(mm.cloneFilter)))
        c1 == IF mm.cloneCursor >= Len(repos) THEN Len(repos) - 1 ELSE mm.cloneCursor
        c2 == IF c1 < 0 THEN 0 ELSE c1
    IN  updateCloneScrollOffset([mm EXCEPT !.cloneRepos = repos, !.cloneCursor = c2])

\* The Cancel key suppressed, like the other input, while Loading or Cloning.
cloneRepoCancelSuppressed(mm) ==
    IF mm.cloneSuccess
    THEN [mm EXCEPT !.mode = ModeNormal, !.cloneSuccess = FALSE]
    ELSE IF mm.cloneLoading \/ mm.cloneCloning
    THEN mm
    ELSE IF mm.cloneFilter # <<>>
    THEN [mm EXCEPT !.cloneFilter = <<>>, !.cloneRepos = mm.cloneReposAll,
                    !.cloneCursor = 0, !.cloneScrollOffset = 0]
    ELSE [mm EXCEPT !.mode = ModeNormal, !.cloneError = <<>>]

\* The Cancel key: what it does to the model.  In the success state it also
\* reloads the sessions.
cloneRepoCancel(mm) ==
    IF mm.cloneSuccess
    THEN [mm EXCEPT !.mode = ModeNormal, !.cloneSuccess = FALSE]
    ELSE IF mm.cloneLoading \/ mm.cloneCloning
    THEN [mm EXCEPT !.mode = ModeNormal, !.cloneLoading = FALSE,
                    !.cloneCloning = FALSE, !.cloneError = <<>>]
    ELSE IF mm.cloneFilter # <<>>
    THEN [mm EXCEPT !.cloneFilter = <<>>, !.cloneRepos = mm.cloneReposAll,
                    !.cloneCursor = 0, !.cloneScrollOffset = 0]
    ELSE IF mm.cloneError # <<>>
    THEN [mm EXCEPT !.mode = ModeNormal, !.cloneError = <<>>]
    ELSE [mm EXCEPT !.mode = ModeNormal]

CloneRepoCancel ==
    /\ InCloneRepo
    /\ IF m.cloneSuccess
       THEN /\ CanDispatchLoad
            /\ Step(cloneRepoCancel(m), <<>>, tmux, disk, One(LoadCmd), FALSE)
       ELSE Pure(cloneRepoCancel(m))

CloneRepoUp ==
    /\ InCloneRepo
    /\ Pure(IF ~m.cloneSuccess /\ m.cloneCursor > 0
            THEN updateCloneScrollOffset([m EXCEPT !.cloneCursor = m.cloneCursor - 1])
            ELSE m)

CloneRepoDown ==
    /\ InCloneRepo
    /\ Pure(IF ~m.cloneSuccess /\ m.cloneCursor < Len(m.cloneRepos) - 1
            THEN updateCloneScrollOffset([m EXCEPT !.cloneCursor = m.cloneCursor + 1])
            ELSE m)

\* Whether the Select key starts a clone (outside the success state).
canCloneSelected(mm) ==
    /\ Len(mm.cloneRepos) > 0
    /\ mm.cloneCursor < Len(mm.cloneRepos)
    /\ ~mm.cloneLoading
    /\ ~mm.cloneCloning
    /\ mm.cloneError = <<>>

cloneSelectedRepo ==
    LET selected == m.cloneRepos[m.cloneCursor + 1]
    IN  /\ CanDispatchClone
        /\ Step([m EXCEPT !.cloneCloning = TRUE, !.cloneCloningRepo = selected],
                <<>>, tmux, disk, One(CloneCmd(selected)), FALSE)

\* The Select key: in the success state it switches to the cloned session.
CloneRepoSelect ==
    /\ InCloneRepo
    /\ IF m.cloneSuccess
       THEN LET cs == <<Call("SwitchClient", <<m.cloneSuccessSession>>)>>
            IN  IF SwitchClient(tmux, <<m.cloneSuccessSession>>)
                THEN Step(m, cs, tmux, disk, EmptyBag, TRUE)
                ELSE /\ CanDispatchLoad
                     /\ Step([setError(m, <<"Error">>) EXCEPT
                                  !.mode = ModeNormal, !.cloneSuccess = FALSE],
                             cs, tmux, disk, One(LoadCmd), FALSE)
       ELSE IF canCloneSelected(m) THEN cloneSelectedRepo
       ELSE Pure(m)

CloneRepoQuit == InCloneRepo /\ ~m.cloneSuccess /\ Quit(m, <<>>)

\* Whether backspace and typed runes edit the clone filter.
cloneInputOpen(mm) == ~mm.cloneLoading /\ ~mm.cloneCloning

CloneRepoBackspace ==
    /\ InCloneRepo
    /\ Pure(IF ~m.cloneSuccess /\ Len(m.cloneFilter) > 0 /\ cloneInputOpen(m)
            THEN filterCloneRepos([m EXCEPT !.cloneFilter =
                     SubSeq(m.cloneFilter, 1, Len(m.cloneFilter) - 1)])
            ELSE m)

CloneRepoRunes ==
    /\ InCloneRepo
    /\ Len(m.cloneFilter) < MaxFilterLen
    /\ \E r \in Runes :
          Pure(IF ~m.cloneSuccess /\ cloneInputOpen(m) /\ m.cloneError = <<>>
               THEN filterCloneRepos([m EXCEPT !.cloneFilter = Append(m.cloneFilter, r)])
               ELSE m)

(***************************************************************************)
(* Update: commands running and their results arriving.                    *)
(***************************************************************************)
\* loadSessions runs: it reads tmux now and its result is in flight.
RunLoadSessions ==
    /\ ~quit
    /\ BagIn(LoadCmd, inflight)
    /\ \E ok \in BOOLEAN :
          inflight' = (inflight (-) One(LoadCmd))
                          (+) One(IF ok THEN SessionsMsg(ListSessions(tmux)) ELSE ErrMsg)
    /\ UNCHANGED <<fn, sl, m, tmux, disk, calls, quit>>

Deliver(msg, mm) ==
    /\ ~quit
    /\ BagIn(msg, inflight)
    /\ inflight' = inflight (-) One(msg)
    /\ m' = mm
    /\ calls' = <<>>
    /\ UNCHANGED <<fn, sl, tmux, disk, quit>>

\* A sessions result stored without rebuilding the items.
updateSessionsMsgNoRebuild(mm, sessions) == [mm EXCEPT !.sessions = sessions]

updateSessionsMsg(mm, sessions) ==
    LET m1 == rebuildItems([mm EXCEPT !.sessions = sessions])
    IN  IF Len(m1.items) = 0 THEN [m1 EXCEPT !.message = <<"No other sessions">>]
        ELSE m1

UpdateSessionsMsg ==
    \E msg \in BagToSet(inflight) :
        /\ msg.type = "sessionsMsg"
        /\ Deliver(msg, updateSessionsMsg(m, msg.sessions))

\* A failed load that also falls back to Normal mode.
updateErrMsgToNormal(mm) == [setError(mm, <<"Error">>) EXCEPT !.mode = ModeNormal]

updateErrMsg(mm) == setError(mm, <<"Error">>)

UpdateErrMsg == Deliver(ErrMsg, updateErrMsg(m))

UpdateClearMessageMsg ==
    Deliver(ClearMessageMsg, [m EXCEPT !.message = <<>>, !.messageIsError = FALSE])

\* The result of the timer that animationTick() starts.
AnimationTickMsg == [type |-> "animationTickMsg"]

\* An animation of four frames.
updateAnimationTickMsgFour(mm) ==
    [mm EXCEPT !.animationFrame = (mm.animationFrame + 1) % 4]

updateAnimationTickMsg(mm) ==
    [mm EXCEPT !.animationFrame = (mm.animationFrame + 1) % 3]

\* The tick is delivered and its handler returns animationTick() again.
UpdateAnimationTickMsg ==
    /\ ~quit
    /\ BagIn(AnimationTickMsg, inflight)
    /\ m' = updateAnimationTickMsg(m)
    /\ calls' = <<>>
    /\ inflight' = (inflight (-) One(AnimationTickMsg)) (+) One(AnimationTickMsg)
    /\ UNCHANGED <<fn, sl, tmux, disk, quit>>

\* fetchAvailableReposCmd runs: the gh CLI or the fetch may fail.
RunFetch ==
    /\ ~quit
    /\ BagIn(FetchCmd, inflight)
    /\ \E out \in {CloneErrorMsg} \cup {CloneReposLoadedMsg(r) : r \in RepoLists} :
          inflight' = (inflight (-) One(FetchCmd)) (+) One(out)
    /\ UNCHANGED <<fn, sl, m, tmux, disk, calls, quit>>

\* The command of cloneSelectedRepo runs: the clone may fail, and so does the
\* creation of a session whose name is taken.
RunClone ==
    /\ ~quit
    /\ \E cmd \in BagToSet(inflight) :
          /\ cmd.type = "cloneRepo"
          /\ LET sessionName == sanitizeSessionName(cmd.repo)
                 res == CreateSession(tmux, sessionName)
             IN  \E cloned \in BOOLEAN :
                     IF cloned /\ res[1]
                     THEN /\ tmux' = res[2]
                          /\ inflight' = (inflight (-) One(cmd))
                                             (+) One(CloneSuccessMsg(sessionName))
                     ELSE /\ tmux' = tmux
                          /\ inflight' = (inflight (-) One(cmd)) (+) One(CloneErrorMsg)
    /\ UNCHANGED <<fn, sl, m, disk, calls, quit>>

updateCloneReposLoadedMsg(mm, repos) ==
    LET m1 == [mm EXCEPT !.cloneLoading = FALSE, !.cloneReposAll = repos,
                         !.cloneRepos = repos, !.cloneCursor = 0,
                         !.cloneScrollOffset = 0]
    IN  IF Len(repos) = 0 THEN [m1 EXCEPT !.cloneError = <<"All cloned">>] ELSE m1

UpdateCloneReposLoadedMsg ==
    \E msg \in BagToSet(inflight) :
        /\ msg.type = "cloneReposLoadedMsg"
        /\ Deliver(msg, updateCloneReposLoadedMsg(m, msg.repos))

updateCloneErrorMsg(mm) ==
    [mm EXCEPT !.cloneLoading = FALSE, !.cloneCloning = FALSE, !.cloneError = <<"Error">>]

UpdateCloneErrorMsg == Deliver(CloneErrorMsg, updateCloneErrorMsg(m))

\* A clone result that also leaves the clone view.
updateCloneSuccessMsgToNormal(mm, sessionName) ==
    [mm EXCEPT !.cloneCloning = FALSE, !.cloneSuccess = TRUE,
               !.cloneSuccessSession = sessionName, !.mode = ModeNormal]

updateCloneSuccessMsg(mm, sessionName) ==
    [mm EXCEPT !.cloneCloning = FALSE, !.cloneSuccess = TRUE,
               !.cloneSuccessSession = sessionName]

UpdateCloneSuccessMsg ==
    \E msg \in BagToSet(inflight) :
        /\ msg.type = "cloneSuccessMsg"
        /\ Deliver(msg, updateCloneSuccessMsg(m, msg.sessionName))

updateWindowSizeMsg(mm, height) == [mm EXCEPT !.height = height]

\* A tea.WindowSizeMsg that reports one of the heights H.
UpdateWindowSizeMsgOf(H) ==
    /\ ~quit
    /\ \E h \in H : Pure(updateWindowSizeMsg(m, h))

UpdateWindowSizeMsg == UpdateWindowSizeMsgOf(TermHeights)

(***************************************************************************)
(* Specifications                                                          *)
(***************************************************************************)
Init ==
    /\ fn = NoCall
    /\ sl = NewScrollList
    /\ m = New
    /\ tmux = TmuxInit
    /\ disk = DiskInit
    /\ inflight = One(LoadCmd)
    /\ calls = <<>>
    /\ quit = FALSE

Next ==
    \/ NormalQuit
    \/ NormalCancel
    \/ NormalUp
    \/ NormalDown
    \/ NormalExpand
    \/ NormalCollapse
    \/ NormalSelect
    \/ NormalKill
    \/ NormalCreate
    \/ NormalLazygit
    \/ NormalJump
    \/ NormalBackspace
    \/ NormalRunes
    \/ ConfirmKillKill
    \/ ConfirmKillCancel
    \/ CreateCancel
    \/ RunLoadSessions
    \/ UpdateSessionsMsg
    \/ UpdateErrMsg
    \/ UpdateClearMessageMsg
    \/ UpdateWindowSizeMsg

Spec == Init /\ [][Next]_vars

\* The session loads that run beside every mode.
Loads ==
    \/ RunLoadSessions
    \/ UpdateSessionsMsg
    \/ UpdateErrMsg

\* CloneRepo mode: its keys, its fetch and clone commands and their results.
CloneRepoSteps ==
    \/ NormalCloneRepo
    \/ CloneRepoCancel
    \/ CloneRepoUp
    \/ CloneRepoDown
    \/ CloneRepoSelect
    \/ CloneRepoQuit
    \/ CloneRepoBackspace
    \/ CloneRepoRunes
    \/ RunFetch
    \/ RunClone
    \/ UpdateCloneReposLoadedMsg
    \/ UpdateCloneErrorMsg
    \/ UpdateCloneSuccessMsg

NextClone == CloneRepoSteps \/ Loads

SpecClone == Init /\ [][NextClone]_vars

\* The clone view entered again while the fetch of an earlier visit is still
\* outstanding.
NormalCloneRepoAgain == NormalCloneRepoUpTo(MaxFetches)

\* The repository list: fetched, filtered and left, with fetches overlapping.
NextFetch ==
    \/ NormalCloneRepoAgain
    \/ CloneRepoCancel
    \/ CloneRepoUp
    \/ CloneRepoDown
    \/ CloneRepoBackspace
    \/ CloneRepoRunes
    \/ RunFetch
    \/ UpdateCloneReposLoadedMsg
    \/ UpdateCloneErrorMsg
    \/ Loads

SpecFetch == Init /\ [][NextFetch]_vars

\* The keys of PickDirectory mode that neither remove a folder nor leave the
\* picker for ConfirmRemoveFolder.
PickDirectoryKeys ==
    \/ NormalPickDirectory
    \/ PickDirectoryCancel
    \/ PickDirectoryUp
    \/ PickDirectoryDown
    \/ PickDirectorySelect
    \/ PickDirectoryQuit
    \/ PickDirectoryBackspace
    \/ PickDirectoryRunes

\* Creating a session by name or from a directory, removing a directory,
\* and killing from the session list.
NextPick ==
    \/ NormalCreate
    \/ CreateCancel
    \/ CreateEnter
    \/ CreateRunes
    \/ CreateBackspace
    \/ PickDirectoryKeys
    \/ PickDirectoryKill
    \/ ConfirmRemoveFolderKill
    \/ ConfirmRemoveFolderCancel
    \/ NormalKill
    \/ ConfirmKillKill
    \/ ConfirmKillCancel
    \/ Loads
    \/ UpdateClearMessageMsg
    \/ UpdateWindowSizeMsg

SpecPick == Init /\ [][NextPick]_vars

\* Entering and leaving every mode: the keys that enter a mode, the keys and
\* results that change what Escape does in it, and Escape.
NextModes ==
    \/ NormalCreate
    \/ CreateCancel
    \/ PickDirectoryKeys
    \/ PickDirectoryKill
    \/ ConfirmRemoveFolderCancel
    \/ CloneRepoSteps
    \/ NormalKill
    \/ ConfirmKillCancel
    \/ Loads

SpecModes == Init /\ [][NextModes]_vars

\* Model.Init(): the first load and the first animation tick are dispatched.
\* The specifications above leave the animation out, which touches
\* animationFrame only.
InitTick ==
    /\ fn = NoCall
    /\ sl = NewScrollList
    /\ m = New
    /\ tmux = TmuxInit
    /\ disk = DiskInit
    /\ inflight = One(LoadCmd) (+) One(AnimationTickMsg)
    /\ calls = <<>>
    /\ quit = FALSE

\* The animation running under the session list: moving, expanding,
\* selecting, killing and quitting.
NextTick ==
    \/ UpdateAnimationTickMsg
    \/ NormalQuit
    \/ NormalUp
    \/ NormalDown
    \/ NormalExpand
    \/ NormalCollapse
    \/ NormalSelect
    \/ NormalKill
    \/ ConfirmKillKill
    \/ ConfirmKillCancel
    \/ Loads
    \/ UpdateClearMessageMsg

SpecTick == InitTick /\ [][NextTick]_vars

\* Every asynchronous result the program receives, with the keys that start
\* the commands and timers behind them.
NextMsgs ==
    \/ NormalCloneRepo
    \/ CloneRepoCancel
    \/ CloneRepoSelect
    \/ RunFetch
    \/ RunClone
    \/ UpdateCloneReposLoadedMsg
    \/ UpdateCloneErrorMsg
    \/ UpdateCloneSuccessMsg
    \/ Loads
    \/ UpdateAnimationTickMsg
    \/ UpdateClearMessageMsg
    \/ NormalKill
    \/ ConfirmKillKill
    \/ ConfirmKillCancel

SpecMsgs == InitTick /\ [][NextMsgs]_vars

\* The arguments are drawn at the start, then one of the functions is applied.
InitFn ==
    /\ fn \in {[NoCall EXCEPT !.text = t, !.pattern = p] :
                  t \in ArgsUpTo(MaxArgLen), p \in ArgsUpTo(MaxArgLen)}
    /\ sl = NewScrollList
    /\ m = New
    /\ tmux = TmuxInit
    /\ disk = DiskInit
    /\ inflight = One(LoadCmd)
    /\ calls = <<>>
    /\ quit = FALSE

NextFn ==
    \/ CallFuzzyMatch
    \/ CallSanitizeSessionName

SpecFn == InitFn /\ [][NextFn]_vars

\* The runes typed into the directory filter: "o" is in the display path of
\* every directory on disk, "B" in that of one.
PickerRunes == {"o", "B"}

\* A terminal so low that the picker shows a single directory.
PickerHeights == {8}

PickerTypes == PickDirectoryRunesOf(PickerRunes)

PickerResize == UpdateWindowSizeMsgOf(PickerHeights)

\* The directory picker in a low terminal: moving, filtering and leaving.
NextPickScroll ==
    \/ NormalPickDirectory
    \/ PickDirectoryCancel
    \/ PickDirectoryUp
    \/ PickDirectoryDown
    \/ PickDirectoryBackspace
    \/ PickerTypes
    \/ PickDirectoryKill
    \/ ConfirmRemoveFolderCancel
    \/ PickerResize
    \/ Loads

SpecPickScroll == Init /\ [][NextPickScroll]_vars

NextSL ==
    \/ CallSetItems
    \/ CallSetHeight
    \/ CallSetFilter
    \/ CallSetCursor
    \/ CallMoveCursor
    \/ CallReset
    \/ CallClear

SpecSL == Init /\ [][NextSL]_vars

(***************************************************************************)
(* Properties                                                              *)
(***************************************************************************)
Max(a, b) == IF a >= b THEN a ELSE b

\* The entity an item stands for: <<session name>> or <<session name, window Index>>.
EntityAt(mm, i) == getTargetName(mm, mm.items[i + 1])

Entities(mm) == {EntityAt(mm, i) : i \in 0..(Len(mm.items) - 1)}

\* The flattening of sessions under filter, session by session.
Block(sessions, k) ==
    <<SessionItem(k - 1)>> \o
    (IF sessions[k].Expanded
     THEN [j \in 1..Len(sessions[k].Windows) |-> WindowItem(k - 1, j - 1)]
     ELSE <<>>)

RECURSIVE Flatten(_, _, _)
Flatten(sessions, filter, k) ==
    IF k > Len(sessions) THEN <<>>
    ELSE (IF Contains(ToLower(sessions[k].Name), ToLower(filter))
          THEN Block(sessions, k) ELSE <<>>) \o Flatten(sessions, filter, k + 1)

\* A step that kills: the handler called KillSession or KillWindow.
KillCalled == calls' # <<>> /\ calls'[1].op \in {"KillSession", "KillWindow"}

\* C1: the target handed to killSession/killWindow on the confirming key is the
\* target recorded in killTarget when ConfirmKill was entered.
C1_KillsPendingTarget ==
    [][(m.mode = ModeConfirmKill /\ KillCalled) => calls'[1].arg = m.killTarget]_vars

\* C2: after every handled message the items are the flattening of the session
\* collection under the current filter and expansion flags.
C2_ItemsAreFlattening == m.items = Flatten(m.sessions, m.filter, 1)

\* C3: ScrollList keeps 0 <= scrollOffset <= max(0, len(filtered) - height).
C3_ScrollOffsetBounded ==
    /\ 0 <= sl.scrollOffset
    /\ sl.scrollOffset <= Max(0, Len(sl.filtered) - sl.height)

\* C4: ScrollList keeps the cursor a valid index of filtered, and 0 when
\* filtered is empty.
C4_CursorInRange ==
    IF Len(sl.filtered) > 0
    THEN 0 <= sl.cursor /\ sl.cursor < Len(sl.filtered)
    ELSE sl.cursor = 0

\* The cursor sits on the last item of a filtered list that is shorter than
\* the item set.
C4_Witness ==
    /\ sl.filter # <<>>
    /\ Len(sl.filtered) > 1
    /\ Len(sl.filtered) < Len(sl.items)
    /\ sl.cursor = Len(sl.filtered) - 1

\* C5: ScrollList keeps the cursor inside the visible window,
\* scrollOffset <= cursor < scrollOffset + height, with height >= 1.
C5_CursorVisible ==
    /\ sl.height >= 1
    /\ sl.scrollOffset <= sl.cursor
    /\ sl.cursor < sl.scrollOffset + sl.height

\* The list is scrolled down and the cursor is on the last visible row.
C5_Witness ==
    /\ sl.scrollOffset > 0
    /\ sl.height < Len(sl.filtered)
    /\ sl.cursor = sl.scrollOffset + sl.height - 1

\* C6: filtered is the subsequence of items the predicate accepts for the
\* lower-cased filter, and is items itself when the filter is empty.
C6_FilteredIsSelection ==
    /\ sl.filtered = SelectSeq(sl.items, LAMBDA it : fuzzyMatch(it, ToLower(sl.filter)))
    /\ sl.filter = <<>> => sl.filtered = sl.items

\* A filter typed in upper case keeps some items and drops others.
C6_Witness ==
    /\ sl.filter # <<>>
    /\ sl.filter # ToLower(sl.filter)
    /\ sl.filtered # <<>>
    /\ Len(sl.filtered) < Len(sl.items)

\* expandCurrent reaches its rebuildItems: the cursor is on a session whose
\* windows are loaded or can be listed.
ExpandRebuilds ==
    /\ isCursorValid(m)
    /\ CurrentItem(m).IsSession
    /\ LET session == m.sessions[CurrentItem(m).SessionIndex + 1]
       IN  Len(session.Windows) > 0 \/ ListWindows(tmux, session.Name)[1]

\* A step that rebuilds the items: a filter edit, expand, collapse or reload.
RebuildStep ==
    \/ NormalCancel /\ m.filter # <<>>
    \/ NormalExpand /\ ExpandRebuilds
    \/ NormalCollapse /\ isCursorValid(m)
    \/ NormalBackspace /\ m.filter # <<>>
    \/ NormalRunes
    \/ UpdateSessionsMsg

\* C7: when the items are rebuilt and the session or window under the cursor
\* is still in the rebuilt list, the cursor is on it afterwards.
C7_CursorFollowsEntity ==
    [][(/\ RebuildStep
        /\ isCursorValid(m)
        /\ EntityAt(m, m.cursor) \in Entities(m'))
       => (isCursorValid(m') /\ EntityAt(m', m'.cursor) = EntityAt(m, m.cursor))]_vars

\* C8: at most one session is expanded.
C8_AtMostOneExpanded ==
    Cardinality({k \in DOMAIN m.sessions : m.sessions[k].Expanded}) <= 1

\* The second session is expanded after the first one had been: the first has
\* its windows loaded and is collapsed.
C8_Witness ==
    /\ Len(m.sessions) = 2
    /\ m.sessions[1].Windows # <<>>
    /\ ~m.sessions[1].Expanded
    /\ m.sessions[2].Expanded

\* C9: the cursor of the session list is a valid index of items, and 0 when
\* items is empty.
C9_ModelCursorInRange ==
    IF Len(m.items) > 0
    THEN 0 <= m.cursor /\ m.cursor < Len(m.items)
    ELSE m.cursor = 0

\* The last session was killed and the reload has been applied: the list is
\* one session shorter and the cursor is on its last item.
C9_Witness ==
    /\ m.message = <<"Killed">>
    /\ m.sessions = ListSessions(tmux)
    /\ Len(m.sessions) = Len(TmuxInit) - 1
    /\ m.sessions[1].Name = TmuxInit[1].Name
    /\ m.cursor = Len(m.items) - 1

\* C10: the cursor of the session list is inside the visible window.
C10_ModelCursorVisible ==
    /\ m.scrollOffset <= m.cursor
    /\ m.cursor < m.scrollOffset + sessionMaxVisibleItems(m)

\* The CloneRepo state of the model.
CloneState(mm) ==
    <<mm.cloneRepos, mm.cloneReposAll, mm.cloneFilter, mm.cloneCursor,
      mm.cloneScrollOffset, mm.cloneLoading, mm.cloneCloning, mm.cloneSuccess,
      mm.cloneSuccessSession, mm.cloneError>>

\* A step that delivers the result of a fetch or of a clone.
CloneResultStep ==
    \/ UpdateCloneReposLoadedMsg
    \/ UpdateCloneErrorMsg
    \/ UpdateCloneSuccessMsg

\* C11: a clone-related result delivered after CloneRepo mode was left changes
\* nothing of the CloneRepo state.
C11_StaleCloneResultIgnored ==
    [][(CloneResultStep /\ m.mode # ModeCloneRepo) => CloneState(m') = CloneState(m)]_vars

\* C12: CloneRepo mode is always entered in the Loading sub-state (loading set,
\* cloning and success not set, error and filter empty), and a clone success is
\* taken in CloneRepo mode only while a clone started in this visit is running.
C12_CloneStartsLoading ==
    [][/\ (NormalCloneRepo /\ m'.mode = ModeCloneRepo) =>
              /\ m'.cloneLoading
              /\ ~m'.cloneCloning
              /\ ~m'.cloneSuccess
              /\ m'.cloneError = <<>>
              /\ m'.cloneFilter = <<>>
       /\ (UpdateCloneSuccessMsg /\ m.mode = ModeCloneRepo) => m.cloneCloning]_vars

\* A character key, backspace or Enter pressed in CloneRepo mode.
CloneInputStep ==
    \/ CloneRepoRunes
    \/ CloneRepoBackspace
    \/ CloneRepoSelect

\* C13: while CloneRepo is Loading or Cloning, character keys, backspace and
\* Enter change neither the clone filter nor the filtered list, start no clone
\* and switch to no session.
C13_CloneInputSuppressed ==
    [][(/\ m.mode = ModeCloneRepo
        /\ m.cloneLoading \/ m.cloneCloning
        /\ CloneInputStep)
       => /\ m'.cloneFilter = m.cloneFilter
          /\ m'.cloneRepos = m.cloneRepos
          /\ inflight' = inflight
          /\ calls' = <<>>
          /\ ~quit']_vars

\* C14: a fetch error delivered while CloneRepo is Loading leaves the mode at
\* CloneRepo with loading cleared and the error set, and one Escape in that
\* state clears the error and returns to Normal.
C14_FetchErrorThenEscape ==
    [][(UpdateCloneErrorMsg /\ m.mode = ModeCloneRepo /\ m.cloneLoading)
       => /\ m'.mode = ModeCloneRepo
          /\ ~m'.cloneLoading
          /\ m'.cloneError # <<>>
          /\ cloneRepoCancel(m').mode = ModeNormal
          /\ cloneRepoCancel(m').cloneError = <<>>]_vars

\* The state of the session list.
ListState(mm) == <<mm.sessions, mm.items, mm.cursor, mm.scrollOffset, mm.filter>>

\* C15: entering ConfirmKill and cancelling it leave sessions, items, cursor,
\* scroll offset and filter alone, call no collaborator and dispatch nothing;
\* the cancel ends in Normal with killTarget empty.
C15_CancelKillChangesNothing ==
    [][/\ NormalKill =>
              /\ ListState(m') = ListState(m)
              /\ calls' = <<>>
              /\ inflight' = inflight
              /\ tmux' = tmux
       /\ ConfirmKillCancel =>
              /\ m'.mode = ModeNormal
              /\ m'.killTarget = <<>>
              /\ ListState(m') = ListState(m)
              /\ calls' = <<>>
              /\ inflight' = inflight
              /\ tmux' = tmux]_vars

\* A kill prompt raised over an error message has been cancelled: the message
\* is gone and its error flag is still set.
C15_Witness ==
    /\ m.mode = ModeNormal
    /\ m.message = <<>>
    /\ m.messageIsError
    /\ m.killTarget = <<>>
    /\ m.filter # <<>>
    /\ Len(m.items) > 0

\* What the Escape key does to the model in each mode.
handleEscape(mm) ==
    CASE mm.mode = ModeConfirmKill -> confirmKillCancel(mm)
      [] mm.mode = ModeCreate -> createCancel(mm)
      [] mm.mode = ModePickDirectory -> pickDirectoryCancel(mm)
      [] mm.mode = ModeConfirmRemoveFolder -> confirmRemoveFolderCancel(mm)
      [] mm.mode = ModeCloneRepo -> cloneRepoCancel(mm)
      [] OTHER -> mm

\* The model after k presses of Escape in a row.
RECURSIVE Escapes(_, _)
Escapes(mm, k) == IF k = 0 THEN mm ELSE Escapes(handleEscape(mm), k - 1)

\* C16: from every state with a mode other than Normal, at most three presses
\* of Escape in a row bring the mode to Normal.
C16_EscapeReachesNormal ==
    m.mode # ModeNormal => \E k \in 1..3 : Escapes(m, k).mode = ModeNormal

\* ConfirmRemoveFolder over a filtered directory list: three presses are needed.
C16_Witness ==
    /\ m.mode = ModeConfirmRemoveFolder
    /\ m.projectFilter # <<>>
    /\ Escapes(m, 2).mode # ModeNormal

\* The provider refuses the kill that killCurrent asks for.
KillFails ==
    /\ isCursorValid(m)
    /\ LET target == killTargetOf(m)
       IN  ~(IF Len(target) = 1 THEN KillSession(tmux, target[1])
             ELSE KillWindow(tmux, target[1], target[2]))[1]

\* C17: when the kill fails on the confirming key, the mode becomes Normal,
\* killTarget is cleared, an error message is shown and a reload is dispatched.
C17_KillErrorReturnsToNormal ==
    [][(ConfirmKillKill /\ KillFails)
       => /\ m'.mode = ModeNormal
          /\ m'.killTarget = <<>>
          /\ m'.message = <<"Error">>
          /\ m'.messageIsError
          /\ CopiesIn(LoadCmd, inflight') = CopiesIn(LoadCmd, inflight) + 1]_vars

\* A kill has just failed: the error is shown in Normal mode and a reload is
\* on its way.
C17_Witness ==
    /\ calls # <<>>
    /\ calls[1].op \in {"KillSession", "KillWindow"}
    /\ m.message = <<"Error">>
    /\ m.messageIsError
    /\ m.mode = ModeNormal
    /\ BagIn(LoadCmd, inflight)

\* C18: a failed session load sets the message and its error flag and changes
\* nothing else.
C18_LoadErrorOnlySetsMessage ==
    [][UpdateErrMsg
       => /\ m' = [m EXCEPT !.message = <<"Error">>, !.messageIsError = TRUE]
          /\ calls' = <<>>
          /\ tmux' = tmux
          /\ disk' = disk]_vars

\* A load error arrived over the removal prompt of a filtered directory list.
C18_Witness ==
    /\ m.mode = ModeConfirmRemoveFolder
    /\ m.message = <<"Error">>
    /\ m.messageIsError
    /\ m.removeTarget # <<>>
    /\ m.projectFilter # <<>>

\* The input is empty or holds only white space.
BlankInput(input) == \A i \in DOMAIN input : input[i] = " "

\* C19: Enter in Create mode over an empty or blank name reports an error,
\* stays in Create mode and calls neither createSession nor switchTo.
C19_EmptyNameRejected ==
    [][(CreateEnter /\ BlankInput(m.input))
       => /\ m'.mode = ModeCreate
          /\ m'.message = <<"Error">>
          /\ m'.messageIsError
          /\ calls' = <<>>
          /\ tmux' = tmux
          /\ ~quit']_vars

\* Enter was pressed over a blank name before any load could fail: the error
\* is shown in Create mode.
C19_Witness ==
    /\ m.mode = ModeCreate
    /\ m.input = <<" ", " ">>
    /\ m.message = <<"Error">>
    /\ m.messageIsError
    /\ calls = <<>>
    /\ inflight = One(LoadCmd)

\* The key of digit num pressed in Normal mode: as a jump key or as a rune.
DigitKeyStep(num) ==
    \/ InNormal /\ isJumpKey(m.filter, num) /\ handleJump(num)
    \/ /\ InNormal
       /\ ~isJumpKey(m.filter, num)
       /\ \E r \in Runes :
              /\ DigitOf(r) = num
              /\ Pure(rebuildItems([m EXCEPT !.filter = Append(m.filter, r)]))

\* C20: with a filter set, a digit key in Normal mode switches nowhere and does
\* not quit: the digit is appended to the filter and the items are rebuilt.
C20_DigitFiltersWhenFiltering ==
    [][\A num \in Digits :
          (DigitKeyStep(num) /\ m.filter # <<>>)
          => /\ ~quit'
             /\ calls' = <<>>
             /\ Len(m'.filter) = Len(m.filter) + 1
             /\ DigitOf(m'.filter[Len(m'.filter)]) = num
             /\ m'.items = Flatten(m'.sessions, m'.filter, 1)]_vars

\* A digit was typed after a letter, and the filter holds both.
C20_Witness ==
    /\ m.mode = ModeNormal
    /\ m.filter = <<"B", "1">>
    /\ m.items = <<>>
    /\ m.sessions # <<>>
    /\ ~quit

\* The session under the cursor is expanded.
CursorInExpanded ==
    isCursorValid(m) /\ m.sessions[CurrentItem(m).SessionIndex + 1].Expanded

\* The step made a single call of SwitchClient with this target.
Switched(target) == calls' = <<Call("SwitchClient", target)>>

\* C21: with no filter, a digit pressed while the session under the cursor is
\* expanded addresses only a window of that session (it switches to the window
\* of that index if there is one, and never to a session); only when that
\* session is not expanded does the digit switch to the session at its position.
C21_DigitAddressesWindowWhenExpanded ==
    [][\A num \in Digits :
          (InNormal /\ isJumpKey(m.filter, num) /\ isCursorValid(m) /\ handleJump(num))
          => LET name == m.sessions[CurrentItem(m).SessionIndex + 1].Name
             IN  IF CursorInExpanded
                 THEN IF windowWithIndex(m, CurrentItem(m).SessionIndex + 1, num) = num
                      THEN Switched(<<name, num>>)
                      ELSE calls' = <<>>
                 ELSE num <= Len(m.sessions) => Switched(<<m.sessions[num].Name>>)]_vars

\* C22: collapse pressed with the cursor on a Window item collapses the owning
\* session and leaves the cursor on the Session item of that session in the
\* rebuilt list.
C22_CollapseFromWindow ==
    [][(NormalCollapse /\ isCursorValid(m) /\ ~CurrentItem(m).IsSession)
       => LET sessionIdx == CurrentItem(m).SessionIndex
          IN  /\ ~m'.sessions[sessionIdx + 1].Expanded
              /\ isCursorValid(m')
              /\ CurrentItem(m') = SessionItem(sessionIdx)]_vars

\* C23: no item of the session list, Session or Window, belongs to a session
\* whose name does not contain the filter text case-insensitively.
C23_ItemsMatchFilter ==
    \A i \in DOMAIN m.items :
        /\ m.items[i].SessionIndex + 1 \in DOMAIN m.sessions
        /\ Contains(ToLower(m.sessions[m.items[i].SessionIndex + 1].Name),
                    ToLower(m.filter))

\* A filter was typed that the expanded session does not match: neither that
\* session nor its windows are in the list, the other session is.
C23_Witness ==
    /\ m.mode = ModeNormal
    /\ m.filter = <<"B">>
    /\ Len(m.sessions) = 2
    /\ m.sessions[1].Expanded
    /\ m.sessions[1].Windows # <<>>
    /\ m.items = <<SessionItem(1)>>

\* C24: in PickDirectory mode Escape with a directory filter clears the filter,
\* shows every scanned directory and keeps the mode; Escape with no filter
\* changes the mode to Normal.
C24_PickerEscapeClearsThenExits ==
    [][PickDirectoryCancel
       => IF m.projectFilter # <<>>
          THEN /\ m'.projectFilter = <<>>
               /\ m'.projectFiltered = m.projectDirs
               /\ m'.projectDirs = m.projectDirs
               /\ m'.mode = ModePickDirectory
          ELSE m'.mode = ModeNormal]_vars

\* The picker was left with Escape: Normal mode over a scanned directory list
\* with no filter.
C24_Witness ==
    /\ m.mode = ModeNormal
    /\ ~quit
    /\ m.projectDirs # <<>>
    /\ m.projectFilter = <<>>
    /\ m.projectFiltered = m.projectDirs
    /\ m.message = <<>>

\* The directories of dirs whose display path contains the filter.
MatchingDirs(dirs, filter) ==
    SelectSeq(dirs, LAMBDA fullPath :
        Contains(ToLower(extractDisplayPath(fullPath)), ToLower(filter)))

\* C25: the confirming key in ConfirmRemoveFolder removes the path captured
\* when the prompt was opened and ends in PickDirectory with the pending path
\* cleared, whether the removal succeeds or fails; on success the directories
\* are scanned and filtered again, so the removed path is gone, and the cursor
\* is clamped.
C25_RemoveFolderActsOnCaptured ==
    [][/\ (PickDirectoryKill /\ m'.mode = ModeConfirmRemoveFolder)
           => m'.removeTarget = m.projectFiltered[m.projectCursor + 1]
       /\ (m.mode = ModeConfirmRemoveFolder /\ m'.mode = ModeConfirmRemoveFolder)
           => m'.removeTarget = m.removeTarget
       /\ (ConfirmRemoveFolderKill /\ m.removeTarget # <<>>)
           => /\ calls'[Len(calls')] = Call("RemoveAll", m.removeTarget)
              /\ m'.mode = ModePickDirectory
              /\ m'.removeTarget = <<>>
              /\ disk' # disk
                  => /\ \A i \in DOMAIN disk' : disk'[i] # m.removeTarget
                     /\ m'.projectDirs = disk'
                     /\ m'.projectFiltered = MatchingDirs(disk', m.projectFilter)
                     /\ m'.projectCursor >= 0
                     /\ m'.projectFiltered # <<>>
                         => m'.projectCursor < Len(m'.projectFiltered)]_vars

\* The only directory that matched the filter has been removed: the list is
\* scanned again and the filtered list is empty.
C25_Witness ==
    /\ m.mode = ModePickDirectory
    /\ m.message = <<"Removed">>
    /\ m.removeTarget = <<>>
    /\ m.projectFilter # <<>>
    /\ m.projectDirs = disk
    /\ Len(disk) = 1
    /\ m.projectFiltered = <<>>
    /\ calls # <<>>
    /\ calls[Len(calls)].op = "RemoveAll"

\* C29: a pending target exists only in its confirmation mode: killTarget is
\* empty outside ConfirmKill and removeTarget is empty outside
\* ConfirmRemoveFolder.
C29_PendingOnlyInConfirmModes ==
    /\ m.mode # ModeConfirmKill => m.killTarget = <<>>
    /\ m.mode # ModeConfirmRemoveFolder => m.removeTarget = <<>>

\* A removal prompt raised over an error message has been cancelled: the
\* message is gone, its error flag is still set, and no target is pending.
C29_Witness ==
    /\ m.mode = ModePickDirectory
    /\ m.message = <<>>
    /\ m.messageIsError
    /\ m.projectFilter # <<>>
    /\ m.removeTarget = <<>>
    /\ m.killTarget = <<>>

\* C26: at most one session load is outstanding at any time, as a command
\* that is running or as a result not yet delivered.
C26_OneLoadOutstanding == OutstandingLoads(inflight) <= 1

\* C28: Enter in Normal mode on a valid item calls SwitchClient with the target
\* of that item, and the program quits exactly when the switch succeeds; when
\* it fails the mode stays Normal and an error is shown; with no item under
\* the cursor Enter calls nothing and does not quit.
C28_EnterSwitchesAndQuits ==
    [][NormalSelect
       => IF isCursorValid(m)
          THEN LET item == CurrentItem(m)
                   name == m.sessions[item.SessionIndex + 1].Name
                   target == IF item.IsSession THEN <<name>>
                             ELSE <<name, m.sessions[item.SessionIndex + 1]
                                              .Windows[item.WindowIndex + 1]>>
               IN  /\ Switched(target)
                   /\ quit' <=> SwitchClient(tmux, target)
                   /\ ~quit' => /\ m'.mode = ModeNormal
                                /\ m'.message = <<"Error">>
                                /\ m'.messageIsError
          ELSE calls' = <<>> /\ ~quit']_vars

\* Enter was pressed on the window of a session that is gone: the switch
\* failed, the program runs on in Normal mode and shows the error.
C28_Witness ==
    /\ ~quit
    /\ m.mode = ModeNormal
    /\ calls # <<>>
    /\ calls[1].op = "SwitchClient"
    /\ Len(calls[1].arg) = 2
    /\ m.message = <<"Error">>
    /\ m.messageIsError

Min(a, b) == IF a < b THEN a ELSE b

\* x clamped into [0, n - 1], and 0 when that range is empty.
ClampIndex(x, n) == Max(0, Min(n - 1, x))

\* The offset nearest to offset that shows cursor in a window of height rows.
MinimalOffset(offset, cursor, height) ==
    IF cursor < offset THEN cursor
    ELSE IF cursor >= offset + height THEN cursor - height + 1
    ELSE offset

\* A list of twelve items in a window of five rows.
TwelveItems == SetHeight(SetItems(NewScrollList, [i \in 1..12 |-> <<"a">>]), 5)

\* C30: MoveCursor(delta) sets the cursor to the old cursor plus delta clamped
\* into [0, len(filtered) - 1] and moves the scroll offset minimally: to the
\* cursor when the cursor is above the window, to cursor - height + 1 when it
\* is below, and not at all otherwise. With 12 items and height 5, moving the
\* cursor to 11 gives offset 7 and moving it back to 0 gives offset 0.
C30_MoveCursorClampsAndScrolls ==
    [][\A delta \in IntArgs :
          (CallMoveCursor /\ sl' = MoveCursor(sl, delta))
          => /\ sl'.cursor = ClampIndex(sl.cursor + delta, Len(sl.filtered))
             /\ sl'.scrollOffset =
                    MinimalOffset(sl.scrollOffset, sl'.cursor, sl.height)
             /\ MoveCursor(TwelveItems, 11).cursor = 11
             /\ MoveCursor(TwelveItems, 11).scrollOffset = 7
             /\ MoveCursor(MoveCursor(TwelveItems, 11), -11).cursor = 0
             /\ MoveCursor(MoveCursor(TwelveItems, 11), -11).scrollOffset = 0]_vars

\* sub is a contiguous part of s.
IsSubstring(s, sub) ==
    \E i \in 0..(Len(s) - Len(sub)) :
        \A j \in 1..Len(sub) : s[i + j] = sub[j]

\* The letters of s in lower case.
Folded(s) == [i \in DOMAIN s |-> IF s[i] = "B" THEN "b" ELSE s[i]]

\* C31: fuzzyMatch folds the case of both operands and is true exactly when
\* the folded pattern is a contiguous part of the folded text, whatever the
\* letter case of either operand.
C31_MatchFoldsBothOperands ==
    fn.op = "fuzzyMatch" => (fn.found <=> IsSubstring(Folded(fn.text), Folded(fn.pattern)))

\* C32: sanitizeSessionName returns a string of the same length in which every
\* "/", ".", ":" and space is replaced by "-" and every other character is
\* unchanged; the result holds none of the four, and sanitizing it again
\* changes nothing.
C32_SanitizeReplacesReserved ==
    fn.op = "sanitizeSessionName"
    => /\ Len(fn.out) = Len(fn.text)
       /\ \A i \in 1..Len(fn.text) :
              fn.out[i] = IF fn.text[i] = "/" \/ fn.text[i] = "." \/ fn.text[i] = ":"
                             \/ fn.text[i] = " "
                          THEN "-" ELSE fn.text[i]
       /\ \A i \in 1..Len(fn.out) : fn.out[i] \notin {"/", ".", ":", " "}
       /\ sanitizeSessionName(fn.out) = fn.out

\* A name with a reserved character and a letter has been sanitized.
C32_Witness ==
    /\ fn.op = "sanitizeSessionName"
    /\ fn.text = <<".", "a">>
    /\ fn.out = <<"-", "a">>

\* The cursor of the directory picker is inside its visible window.
PickerCursorVisible(mm) ==
    /\ mm.projectScrollOffset <= mm.projectCursor
    /\ mm.projectCursor < mm.projectScrollOffset + projectMaxVisibleItems(mm)

\* A key handled in PickDirectory mode.
PickerKeyStep ==
    \/ PickDirectoryCancel
    \/ PickDirectoryUp
    \/ PickDirectoryDown
    \/ PickDirectoryBackspace
    \/ PickerTypes
    \/ PickDirectoryKill

\* C33: every key handled in PickDirectory mode, Escape clearing a filter
\* included, keeps projectScrollOffset <= projectCursor <
\* projectScrollOffset + projectMaxVisibleItems().
C33_PickerCursorVisible ==
    [][(PickerKeyStep /\ PickerCursorVisible(m)) => PickerCursorVisible(m')]_vars

\* The expand key is pressed on a session whose windows are not loaded and
\* the provider fails to list them.
ExpandFails ==
    /\ isCursorValid(m)
    /\ CurrentItem(m).IsSession
    /\ Len(m.sessions[CurrentItem(m).SessionIndex + 1].Windows) = 0
    /\ ~ListWindows(tmux, m.sessions[CurrentItem(m).SessionIndex + 1].Name)[1]

\* C34: when listing the windows fails while expanding, only the message
\* changes: the expansion flags of all sessions, the items and the cursor are
\* as before the key.
C34_FailedExpandKeepsState ==
    [][(NormalExpand /\ ExpandFails)
       => /\ m'.sessions = m.sessions
          /\ m'.items = m.items
          /\ m'.cursor = m.cursor]_vars

\* C35: a sessions result that is applied when no other load is outstanding
\* holds no session that has been killed: a load that read the provider before
\* a kill is never the last one applied.
C35_LastLoadIsFresh ==
    [][(UpdateSessionsMsg /\ OutstandingLoads(inflight') = 0)
       => \A i \in DOMAIN m'.sessions : SessionExists(tmux', m'.sessions[i].Name)]_vars

\* C36: while the mode is ConfirmKill the message is the prompt that names the
\* pending kill target.
C36_PromptStaysInConfirmKill ==
    m.mode = ModeConfirmKill
    => m.message \in {<<"Kill", m.killTarget>>, <<"Kill window", m.killTarget>>}

\* C39: every item refers to existing data: its session index is below the
\* number of sessions, and the window index of a Window item is below the
\* number of windows of that session.
C39_ItemsInRange ==
    \A i \in DOMAIN m.items :
        /\ m.items[i].SessionIndex >= 0
        /\ m.items[i].SessionIndex < Len(m.sessions)
        /\ ~m.items[i].IsSession
            => /\ m.items[i].WindowIndex >= 0
               /\ m.items[i].WindowIndex <
                      Len(m.sessions[m.items[i].SessionIndex + 1].Windows)

\* A reload arrived while the windows of the killed session were listed: the
\* list is rebuilt from the one session left.
C39_Witness ==
    /\ m.mode = ModeNormal
    /\ Len(tmux) = 1
    /\ Len(m.sessions) = 1
    /\ m.sessions[1].Name = tmux[1].Name
    /\ m.items = <<SessionItem(0)>>
    /\ m.message = <<"Killed">>
    /\ m.cursor = 0

\* C37: the CloneRepo sub-state is well-formed: at most one of loading,
\* cloning and success is set, and success never comes with a clone error.
C37_CloneSubStateWellFormed ==
    /\ ~(m.cloneLoading /\ m.cloneCloning)
    /\ ~(m.cloneLoading /\ m.cloneSuccess)
    /\ ~(m.cloneCloning /\ m.cloneSuccess)
    /\ ~(m.cloneSuccess /\ m.cloneError # <<>>)

\* The repositories of the full list that the filter keeps, in order.
FilteredRepos(mm) ==
    SelectSeq(mm.cloneReposAll,
              LAMBDA repo : IsSubstring(Folded(repo), Folded(mm.cloneFilter)))

\* C38: the visible clone list is the full fetched list filtered by the
\* current clone filter, order preserved, also when a repository list arrives
\* after a filter was typed.
C38_VisibleIsFilteredAll == m.cloneRepos = FilteredRepos(m)

\* A result message is handled by Update.
AsyncResultStep ==
    \/ UpdateSessionsMsg
    \/ UpdateErrMsg
    \/ UpdateClearMessageMsg
    \/ UpdateAnimationTickMsg
    \/ UpdateCloneReposLoadedMsg
    \/ UpdateCloneErrorMsg
    \/ UpdateCloneSuccessMsg

\* C40: no asynchronous result message (sessions loaded, load error, clear
\* timer, animation tick, repository list loaded, clone error, clone success)
\* changes the mode or quits the program.
C40_ResultsKeepMode ==
    [][AsyncResultStep => (m'.mode = m.mode /\ quit' = quit)]_vars

\* A clone result and animation ticks were handled in the clone view, which
\* is still open.
C40_Witness ==
    /\ m.mode = ModeCloneRepo
    /\ m.cloneSuccess
    /\ ~m.cloneCloning
    /\ ~m.cloneLoading
    /\ m.animationFrame = 2
    /\ ~quit

====
